---- MODULE Spec2Model ----
(***************************************************************************)
(* Model of src/google_job.py: the size-targeting compression loop         *)
(* iterative_compress_to_limit and the row loop of run().                  *)
(*                                                                         *)
(* Spec     : one call of iterative_compress_to_limit, for a range of      *)
(*            environment settings of the six descent parameters.          *)
(* FairSpec : the same, with the scheduling of a sequential program (a     *)
(*            step that can be taken is taken).                            *)
(* RunSpec  : run() over a small sheet, calling the same loop per row.     *)
(***************************************************************************)
EXTENDS Integers, Sequences, FiniteSets, TLC

VARIABLES
    \* configuration read from the environment (src/google_job.py:27-36)
    MAX_TARGET_BYTES, START_DPI, MIN_DPI, START_JPEG_QUALITY,
    MIN_JPEG_QUALITY, DPI_STEP, QUALITY_STEP,
    \* locals of iterative_compress_to_limit
    cpc,        \* position in the function
    dpi, quality,
    pdf_bytes,  \* the encoded document of the last attempt
    size,       \* len(pdf_bytes)
    result,     \* the returned tuple, NoResult before the return
    attempts,   \* history: the render+compose passes made by this call
    \* state of run()
    pc, idx, urls, cellL, cellM, driveFiles, tmpFiles,
    upl,        \* locals of the row body after the upload
    log,        \* history: what run() did to each row
    \* the exception in flight, and the call that raised it
    exc, raisedAt

cfgVars == <<MAX_TARGET_BYTES, START_DPI, MIN_DPI, START_JPEG_QUALITY,
             MIN_JPEG_QUALITY, DPI_STEP, QUALITY_STEP>>
compVars == <<cpc, dpi, quality, pdf_bytes, size, result, attempts>>
runVars == <<pc, idx, urls, cellL, cellM, driveFiles, tmpFiles, upl, log>>
excVars == <<exc, raisedAt>>
vars == <<cfgVars, compVars, runVars, excVars>>

----------------------------------------------------------------------------
\* Defaults of the environment-derived configuration.
DEFAULT_MAX_TARGET_BYTES == 1048576
DEFAULT_START_DPI == 150
DEFAULT_MIN_DPI == 72
DEFAULT_START_JPEG_QUALITY == 85
DEFAULT_MIN_JPEG_QUALITY == 30
DEFAULT_DPI_STEP == 10
DEFAULT_QUALITY_STEP == 5

\* Bounds of the model.
MaxSpan == 4            \* START - MIN ranges over -1 .. MaxSpan
MaxStep == 3            \* steps range over 1 .. MaxStep
ScenarioBudget == 1000000
LongMsgLen == 252       \* length of the long error message
NumRows == 2            \* rows of the sheet

NoResult == [none |-> TRUE]
NoBytes == [none |-> TRUE]
NoExc == <<-1>>

\* An exception message is a string: a sequence of characters (code points).
Msg(n) == [i \in 1..n |-> 97 + (i % 26)]
ShortMsg == Msg(3)
LongMsg == Msg(LongMsgLen)
ErrMsgs == {ShortMsg, LongMsg}
\* The messages of the exceptions a call can raise: the Google API clients
\* (HttpError) carry the response body, requests and the OS a short text,
\* the renderer and the encoder either.
ErrMsgsAt(at) ==
    CASE at = "compress" -> ErrMsgs
      [] at \in {"download", "mktemp"} -> {ShortMsg}
      [] OTHER -> {LongMsg}

\* The settings of the six parameters: every combination with
\* START - MIN in -1..MaxSpan and a step in 1..MaxStep, and the defaults.
DefaultParams ==
    [sd |-> DEFAULT_START_DPI, md |-> DEFAULT_MIN_DPI, ds |-> DEFAULT_DPI_STEP,
     sq |-> DEFAULT_START_JPEG_QUALITY, mq |-> DEFAULT_MIN_JPEG_QUALITY,
     qs |-> DEFAULT_QUALITY_STEP]

SmallParams ==
    { [sd |-> md + a, md |-> md, ds |-> ds, sq |-> mq + b, mq |-> mq, qs |-> qs] :
        md \in {1, DEFAULT_MIN_DPI}, a \in -1..MaxSpan, ds \in 1..MaxStep,
        mq \in {1, DEFAULT_MIN_JPEG_QUALITY}, b \in -1..MaxSpan, qs \in 1..MaxStep }

Params == SmallParams \cup {DefaultParams}

SetParams(p) ==
    /\ START_DPI = p.sd
    /\ MIN_DPI = p.md
    /\ DPI_STEP = p.ds
    /\ START_JPEG_QUALITY = p.sq
    /\ MIN_JPEG_QUALITY = p.mq
    /\ QUALITY_STEP = p.qs

\* len(pdf_bytes) for a pass: any size; the ones at the budget's boundary
\* (under run(): the budget and one byte more).
Sizes ==
    IF pc = "none" THEN {MAX_TARGET_BYTES - 1, MAX_TARGET_BYTES, MAX_TARGET_BYTES + 1}
    ELSE {MAX_TARGET_BYTES, MAX_TARGET_BYTES + 1}

----------------------------------------------------------------------------
\* iterative_compress_to_limit

\* lines 178-179: entry of the function.
EnterCompress ==
    /\ dpi' = START_DPI
    /\ quality' = START_JPEG_QUALITY
    /\ cpc' = "render"
    /\ pdf_bytes' = NoBytes
    /\ size' = 0
    /\ result' = NoResult
    /\ attempts' = <<>>

\* The frame of the function is gone once the caller has the result or the
\* exception.
LeaveCompress ==
    /\ cpc' = "idle"
    /\ dpi' = START_DPI
    /\ quality' = START_JPEG_QUALITY
    /\ pdf_bytes' = NoBytes
    /\ size' = 0
    /\ attempts' = <<>>

\* lines 181-183: one render + compose pass that succeeds with s bytes.
RenderCompose ==
    /\ cpc = "render"
    /\ \E s \in Sizes :
        /\ pdf_bytes' = [dpi |-> dpi, quality |-> quality, len |-> s]
        /\ size' = s
        /\ attempts' = Append(attempts, [dpi |-> dpi, quality |-> quality, size |-> s])
    /\ cpc' = "check"
    /\ UNCHANGED <<dpi, quality, result, cfgVars, runVars, excVars>>

\* lines 181-182: render_pages_to_images or compose_images_to_target_size
\* raises; nothing in the function catches it.
RenderComposeFails ==
    /\ cpc = "render"
    /\ \E m \in ErrMsgsAt("compress") : exc' = m
    /\ raisedAt' = "compress"
    /\ cpc' = "raised"
    /\ UNCHANGED <<dpi, quality, pdf_bytes, size, result, attempts, cfgVars, runVars>>

Tuple == [pdf_bytes |-> pdf_bytes, size |-> size, dpi |-> dpi, quality |-> quality]

\* Mutants of the three tests of the loop.
WithinLimit_Strict == size < MAX_TARGET_BYTES
CanLowerQuality_NoStep == quality >= MIN_JPEG_QUALITY
CanLowerDpi_Strict == dpi - DPI_STEP > MIN_DPI
CanLowerDpi_NoStep == dpi >= MIN_DPI

\* line 185
WithinLimit == size <= MAX_TARGET_BYTES
\* line 187
CanLowerQuality == quality - QUALITY_STEP >= MIN_JPEG_QUALITY
\* line 190
CanLowerDpi == dpi - DPI_STEP >= MIN_DPI

\* lines 185-186
ReturnWithinLimit ==
    /\ cpc = "check"
    /\ WithinLimit
    /\ result' = Tuple
    /\ cpc' = "returned"
    /\ UNCHANGED <<dpi, quality, pdf_bytes, size, attempts, cfgVars, runVars, excVars>>

\* lines 187-189
LowerQuality ==
    /\ cpc = "check"
    /\ ~WithinLimit
    /\ CanLowerQuality
    /\ quality' = quality - QUALITY_STEP
    /\ cpc' = "render"
    /\ UNCHANGED <<dpi, pdf_bytes, size, result, attempts, cfgVars, runVars, excVars>>

\* Mutant: the quality is not reset when the dpi is lowered.
LowerDpi_NoReset ==
    /\ cpc = "check"
    /\ ~WithinLimit
    /\ ~CanLowerQuality
    /\ CanLowerDpi
    /\ dpi' = dpi - DPI_STEP
    /\ cpc' = "render"
    /\ UNCHANGED <<quality, pdf_bytes, size, result, attempts, cfgVars, runVars, excVars>>

\* Mutant: the dpi is lowered without the quality being exhausted first.
LowerDpi_Early ==
    /\ cpc = "check"
    /\ ~WithinLimit
    /\ CanLowerDpi
    /\ dpi' = dpi - DPI_STEP
    /\ quality' = START_JPEG_QUALITY
    /\ cpc' = "render"
    /\ UNCHANGED <<pdf_bytes, size, result, attempts, cfgVars, runVars, excVars>>

\* lines 190-193
LowerDpi ==
    /\ cpc = "check"
    /\ ~WithinLimit
    /\ ~CanLowerQuality
    /\ CanLowerDpi
    /\ dpi' = dpi - DPI_STEP
    /\ quality' = START_JPEG_QUALITY
    /\ cpc' = "render"
    /\ UNCHANGED <<pdf_bytes, size, result, attempts, cfgVars, runVars, excVars>>

\* line 194
ReturnBestEffort ==
    /\ cpc = "check"
    /\ ~WithinLimit
    /\ ~CanLowerQuality
    /\ ~CanLowerDpi
    /\ result' = Tuple
    /\ cpc' = "returned"
    /\ UNCHANGED <<dpi, quality, pdf_bytes, size, attempts, cfgVars, runVars, excVars>>

----------------------------------------------------------------------------
\* The state of run() while the function is called on its own.
RunIdle ==
    /\ pc = "none"
    /\ idx = 0
    /\ urls = <<>>
    /\ cellL = <<>>
    /\ cellM = <<>>
    /\ driveFiles = <<>>
    /\ tmpFiles = {}
    /\ upl = NoResult
    /\ log = <<>>

Init ==
    /\ MAX_TARGET_BYTES \in {DEFAULT_MAX_TARGET_BYTES, ScenarioBudget}
    /\ \E p \in Params : SetParams(p)
    /\ dpi = START_DPI
    /\ quality = START_JPEG_QUALITY
    /\ cpc = "render"
    /\ pdf_bytes = NoBytes
    /\ size = 0
    /\ result = NoResult
    /\ attempts = <<>>
    /\ exc = NoExc
    /\ raisedAt = "none"
    /\ RunIdle

Next ==
    \/ RenderCompose
    \/ RenderComposeFails
    \/ ReturnWithinLimit
    \/ LowerQuality
    \/ LowerDpi
    \/ ReturnBestEffort

Spec == Init /\ [][Next]_vars

FairSpec == Init /\ [][Next]_vars /\ WF_vars(Next)

----------------------------------------------------------------------------
\* run(): the sheet, the Drive folder and the row loop.
\* The invoice column only names the uploaded file and is left out.

\* cellL is column L (COL_OUTPUT) and cellM column M (COL_FLAG) of the sheet,
\* by row number.
START_ROW == 2
ERROR_CHARS == 250

Rows == START_ROW..(START_ROW + NumRows - 1)
row == START_ROW + idx
rows_count == Len(urls)

\* Cell values. An empty cell reads as "".
Empty == [kind |-> "empty"]
Text(chars) == [kind |-> "text", chars |-> chars]
\* f"https://drive.google.com/uc?export=view&id={file_id}"
ViewUrl(file_id) == [kind |-> "view_url", id |-> file_id]
\* f"{flag} dpi={used_dpi} q={used_q} size={uploaded_size}"
Status(flag, d, q, n) == [kind |-> "status", flag |-> flag, dpi |-> d, q |-> q, size |-> n]
OldRef == ViewUrl(0)
OldStatus == Text(<<111, 108, 100>>)

\* str(e)[:250]
Truncate(msg) == SubSeq(msg, 1, IF Len(msg) < ERROR_CHARS THEN Len(msg) ELSE ERROR_CHARS)
\* "ERROR: "
ERROR_PREFIX == <<69, 82, 82, 79, 82, 58, 32>>
\* f"ERROR: {str(e)[:250]}"
ErrorText(msg) == Text(ERROR_PREFIX \o Truncate(msg))

\* Mutant: the call of iterative_compress_to_limit stands outside the try.
Handler_CompressOutside(at) ==
    CASE at \in {"download", "upload", "write_L", "write_M"} -> "except"
      [] at = "read_L" -> "mktemp"
      [] at = "set_public" -> "write_L"
      [] at = "write_error" -> "finally"
      [] OTHER -> "aborted"

\* Where control goes when the call at position `at` raises an Exception:
\* the try of lines 247-272 (body 248-265), the try around read_cell
\* (238-242), the one inside set_public_anyone (213-216) and the one around
\* the write of the error (269-272). Anything else leaves run().
Handler(at) ==
    CASE at \in {"download", "compress", "upload", "write_L", "write_M"} -> "except"
      [] at = "read_L" -> "mktemp"
      [] at = "set_public" -> "write_L"
      [] at = "write_error" -> "finally"
      [] OTHER -> "aborted"

Note(r, e) == [log EXCEPT ![r].ev = @ \cup {e}]

Raise(at, m) ==
    /\ exc' = m
    /\ raisedAt' = at
    /\ pc' = Handler(at)

\* lines 225-228
ReadColumns ==
    /\ pc = "start"
    /\ urls' \in [1..NumRows -> {"", "u"}]
    /\ pc' = "loop"
    /\ UNCHANGED <<idx, cellL, cellM, driveFiles, tmpFiles, upl, log,
                   cfgVars, compVars, excVars>>

\* lines 225-226: read_column raises.
ReadColumnsFails ==
    /\ pc = "start"
    /\ \E m \in ErrMsgsAt("read_column") : Raise("read_column", m)
    /\ UNCHANGED <<idx, urls, cellL, cellM, driveFiles, tmpFiles, upl, log,
                   cfgVars, compVars>>

\* lines 230, 280: the range is exhausted.
LoopExit ==
    /\ pc = "loop"
    /\ idx = rows_count
    /\ pc' = "done"
    /\ UNCHANGED <<idx, urls, cellL, cellM, driveFiles, tmpFiles, upl, log,
                   cfgVars, compVars, excVars>>

\* lines 231-235
SkipEmptyUrl ==
    /\ pc = "loop"
    /\ idx < rows_count
    /\ urls[idx + 1] = ""
    /\ idx' = idx + 1
    /\ UNCHANGED <<pc, urls, cellL, cellM, driveFiles, tmpFiles, upl, log,
                   cfgVars, compVars, excVars>>

\* lines 231-234, 238: a row with a URL.
ReachRow ==
    /\ pc = "loop"
    /\ idx < rows_count
    /\ urls[idx + 1] # ""
    /\ pc' = "read_L"
    /\ log' = Note(row, "reached")
    /\ UNCHANGED <<idx, urls, cellL, cellM, driveFiles, tmpFiles, upl,
                   cfgVars, compVars, excVars>>

\* lines 239-240: L already filled.
SkipFilled ==
    /\ pc = "read_L"
    /\ cellL[row] # Empty
    /\ idx' = idx + 1
    /\ pc' = "loop"
    /\ log' = Note(row, "skipped")
    /\ UNCHANGED <<urls, cellL, cellM, driveFiles, tmpFiles, upl,
                   cfgVars, compVars, excVars>>

\* line 239: L is empty.
ReadEmpty ==
    /\ pc = "read_L"
    /\ cellL[row] = Empty
    /\ pc' = "mktemp"
    /\ UNCHANGED <<idx, urls, cellL, cellM, driveFiles, tmpFiles, upl, log,
                   cfgVars, compVars, excVars>>

\* lines 239-242: read_cell raises; a warning is printed and the row goes on.
ReadCellFails ==
    /\ pc = "read_L"
    /\ \E m \in ErrMsgsAt("read_L") : Raise("read_L", m)
    /\ UNCHANGED <<idx, urls, cellL, cellM, driveFiles, tmpFiles, upl, log,
                   cfgVars, compVars>>

\* lines 244-245
MakeTemp ==
    /\ pc = "mktemp"
    /\ tmpFiles' = tmpFiles \cup {row}
    /\ pc' = "download"
    /\ exc' = NoExc
    /\ raisedAt' = "none"
    /\ log' = Note(row, "processing")
    /\ UNCHANGED <<idx, urls, cellL, cellM, driveFiles, upl, cfgVars, compVars>>

\* line 245: NamedTemporaryFile raises, outside every try.
MakeTempFails ==
    /\ pc = "mktemp"
    /\ \E m \in ErrMsgsAt("mktemp") : Raise("mktemp", m)
    /\ UNCHANGED <<idx, urls, cellL, cellM, driveFiles, tmpFiles, upl, log,
                   cfgVars, compVars>>

\* lines 248-252: the download succeeds (over the Drive API or over HTTP)
\* and iterative_compress_to_limit is entered.
Download ==
    /\ pc = "download"
    /\ pc' = "compress"
    /\ EnterCompress
    /\ log' = Note(row, "downloaded")
    /\ UNCHANGED <<idx, urls, cellL, cellM, driveFiles, tmpFiles, upl,
                   cfgVars, excVars>>

\* line 248: download_url_to_file raises.
DownloadFails ==
    /\ pc = "download"
    /\ \E m \in ErrMsgsAt("download") : Raise("download", m)
    /\ UNCHANGED <<idx, urls, cellL, cellM, driveFiles, tmpFiles, upl, log,
                   cfgVars, compVars>>

\* lines 252-255: the call returned.
CompressReturns ==
    /\ pc = "compress"
    /\ cpc = "returned"
    /\ pc' = "upload"
    /\ LeaveCompress
    /\ UNCHANGED <<idx, urls, cellL, cellM, driveFiles, tmpFiles, upl, log,
                   result, cfgVars, excVars>>

\* line 252: the call raised (RenderComposeFails); the exception is the
\* caller's.
CompressRaises ==
    /\ pc = "compress"
    /\ cpc = "raised"
    /\ pc' = Handler("compress")
    /\ LeaveCompress
    /\ UNCHANGED <<idx, urls, cellL, cellM, driveFiles, tmpFiles, upl, log,
                   result, cfgVars, excVars>>

\* lines 256-257, 206-210: the file is created in the folder.
Upload ==
    /\ pc = "upload"
    /\ LET file_id == Len(driveFiles) + 1 IN
        /\ driveFiles' = Append(driveFiles,
                [id |-> file_id, bytes |-> result.pdf_bytes, row |-> row])
        /\ upl' = [file_id |-> file_id, uploaded_size |-> result.pdf_bytes.len,
                   used_dpi |-> result.dpi, used_q |-> result.quality]
    /\ pc' = "set_public"
    /\ log' = Note(row, "uploaded")
    /\ UNCHANGED <<idx, urls, cellL, cellM, tmpFiles, cfgVars, compVars, excVars>>

\* line 256: upload_pdf_bytes_to_drive raises.
UploadFails ==
    /\ pc = "upload"
    /\ \E m \in ErrMsgsAt("upload") : Raise("upload", m)
    /\ UNCHANGED <<idx, urls, cellL, cellM, driveFiles, tmpFiles, upl, log,
                   cfgVars, compVars>>

\* lines 259, 212-214: the file is made readable by anyone (the permissions
\* of a file are not part of the model's Drive).
SetPublic ==
    /\ pc = "set_public"
    /\ pc' = "write_L"
    /\ UNCHANGED <<idx, urls, cellL, cellM, driveFiles, tmpFiles, upl, log,
                   cfgVars, compVars, excVars>>

\* lines 212-216: the permission call raises; set_public_anyone prints a
\* warning and returns.
SetPublicFails ==
    /\ pc = "set_public"
    /\ pc' = Handler("set_public")
    /\ UNCHANGED <<idx, urls, cellL, cellM, driveFiles, tmpFiles, upl, log,
                   cfgVars, compVars, excVars>>

\* lines 260, 263
WriteOutput ==
    /\ pc = "write_L"
    /\ cellL' = [cellL EXCEPT ![row] = ViewUrl(upl.file_id)]
    /\ pc' = "write_M"
    /\ log' = Note(row, "wrote_L")
    /\ UNCHANGED <<idx, urls, cellM, driveFiles, tmpFiles, upl,
                   cfgVars, compVars, excVars>>

\* line 263: write_cell raises.
WriteOutputFails ==
    /\ pc = "write_L"
    /\ \E m \in ErrMsgsAt("write_L") : Raise("write_L", m)
    /\ UNCHANGED <<idx, urls, cellL, cellM, driveFiles, tmpFiles, upl, log,
                   cfgVars, compVars>>

\* line 261
Flag == IF upl.uploaded_size <= MAX_TARGET_BYTES THEN "COMPRESSED" ELSE "LARGE_FILE"

\* lines 264-265
WriteFlag ==
    /\ pc = "write_M"
    /\ cellM' = [cellM EXCEPT
                    ![row] = Status(Flag, upl.used_dpi, upl.used_q, upl.uploaded_size)]
    /\ pc' = "finally"
    /\ log' = Note(row, "wrote_M")
    /\ UNCHANGED <<idx, urls, cellL, driveFiles, tmpFiles, upl,
                   cfgVars, compVars, excVars>>

\* line 264: write_cell raises.
WriteFlagFails ==
    /\ pc = "write_M"
    /\ \E m \in ErrMsgsAt("write_M") : Raise("write_M", m)
    /\ UNCHANGED <<idx, urls, cellL, cellM, driveFiles, tmpFiles, upl, log,
                   cfgVars, compVars>>

\* lines 267-270: the row's handler writes the error to M.
WriteError ==
    /\ pc = "except"
    /\ cellM' = [cellM EXCEPT ![row] = ErrorText(exc)]
    /\ pc' = "finally"
    /\ log' = [log EXCEPT ![row].ev = @ \cup {"failed", "wrote_error"},
                          ![row].msg = exc, ![row].at = raisedAt]
    /\ UNCHANGED <<idx, urls, cellL, driveFiles, tmpFiles, upl,
                   cfgVars, compVars, excVars>>

\* lines 267-272: that write raises too; the second exception is printed.
WriteErrorFails ==
    /\ pc = "except"
    /\ pc' = Handler("write_error")
    /\ log' = [log EXCEPT ![row].ev = @ \cup {"failed", "error_write_failed"},
                          ![row].msg = exc, ![row].at = raisedAt]
    /\ UNCHANGED <<idx, urls, cellL, cellM, driveFiles, tmpFiles, upl,
                   cfgVars, compVars, excVars>>

\* lines 273-278, 230: the temporary file is removed, the loop goes on.
Finally ==
    /\ pc = "finally"
    /\ tmpFiles' = tmpFiles \ {row}
    /\ idx' = idx + 1
    /\ pc' = "loop"
    /\ upl' = NoResult
    /\ result' = NoResult
    /\ exc' = NoExc
    /\ raisedAt' = "none"
    /\ UNCHANGED <<urls, cellL, cellM, driveFiles, log, cfgVars,
                   cpc, dpi, quality, pdf_bytes, size, attempts>>

\* The sheet before the run: some rows already bear an output reference.
\* The parameters: two dpi levels and two quality levels, at the default
\* minimums and steps.
RunInit ==
    /\ MAX_TARGET_BYTES = DEFAULT_MAX_TARGET_BYTES
    /\ SetParams([sd |-> DEFAULT_MIN_DPI + DEFAULT_DPI_STEP, md |-> DEFAULT_MIN_DPI,
                  ds |-> DEFAULT_DPI_STEP,
                  sq |-> DEFAULT_MIN_JPEG_QUALITY + DEFAULT_QUALITY_STEP,
                  mq |-> DEFAULT_MIN_JPEG_QUALITY, qs |-> DEFAULT_QUALITY_STEP])
    /\ dpi = START_DPI
    /\ quality = START_JPEG_QUALITY
    /\ cpc = "idle"
    /\ pdf_bytes = NoBytes
    /\ size = 0
    /\ result = NoResult
    /\ attempts = <<>>
    /\ exc = NoExc
    /\ raisedAt = "none"
    /\ pc = "start"
    /\ idx = 0
    /\ urls = <<>>
    /\ cellL \in [Rows -> {Empty, OldRef}]
    /\ cellM = [r \in Rows |-> IF cellL[r] = Empty THEN Empty ELSE OldStatus]
    /\ driveFiles = <<>>
    /\ tmpFiles = {}
    /\ upl = NoResult
    /\ log = [r \in Rows |-> [ev |-> {}, msg |-> NoExc, at |-> "none",
                               l0 |-> cellL[r], m0 |-> cellM[r]]]

RunNext ==
    \/ ReadColumns
    \/ ReadColumnsFails
    \/ LoopExit
    \/ SkipEmptyUrl
    \/ ReachRow
    \/ SkipFilled
    \/ ReadEmpty
    \/ ReadCellFails
    \/ MakeTemp
    \/ MakeTempFails
    \/ Download
    \/ DownloadFails
    \/ RenderCompose
    \/ RenderComposeFails
    \/ ReturnWithinLimit
    \/ LowerQuality
    \/ LowerDpi
    \/ ReturnBestEffort
    \/ CompressReturns
    \/ CompressRaises
    \/ Upload
    \/ UploadFails
    \/ SetPublic
    \/ SetPublicFails
    \/ WriteOutput
    \/ WriteOutputFails
    \/ WriteFlag
    \/ WriteFlagFails
    \/ WriteError
    \/ WriteErrorFails
    \/ Finally

RunSpec == RunInit /\ [][RunNext]_vars

----------------------------------------------------------------------------
\* Properties of run().

Url(r) == urls[r - START_ROW + 1]
\* The loop is past row r.
Finished(r) == pc = "done" \/ (pc # "start" /\ pc # "aborted" /\ row > r)
Did(r, e) == e \in log[r].ev
UploadedFor(r) == \E i \in 1..Len(driveFiles) : driveFiles[i].row = r
TrySites == {"download", "compress", "upload", "write_L", "write_M"}

\* 'ERROR: ' followed by the first 250 characters of msg, or by all of msg
\* when it is shorter.
IsErrorOf(cell, msg) ==
    /\ cell.kind = "text"
    /\ LET n == Len(cell.chars) - Len(ERROR_PREFIX) IN
        /\ n >= 0
        /\ n <= ERROR_CHARS
        /\ n <= Len(msg)
        /\ (n = ERROR_CHARS \/ n = Len(msg))
        /\ cell.chars = ERROR_PREFIX \o SubSeq(msg, 1, n)

\* C6 as stated: the status cell of every row that failed ends up holding
\* 'ERROR: ' and at most the first 250 characters of the message.
C6_ErrorAlwaysRecorded ==
    \A r \in Rows :
        (Did(r, "failed") /\ Finished(r)) => IsErrorOf(cellM[r], log[r].msg)

\* C6 amended: no failure of a download, a render+compose pass, an upload or
\* a write of the sheet leaves the loop, which goes on to every later row
\* with a URL; iterative_compress_to_limit makes no further attempt after a
\* failed pass and the failure reaches the row's handler; the failing row's
\* status cell ends up holding 'ERROR: ' and at most the first 250
\* characters of the message when the write of that text succeeds, and is
\* left as it was when that write fails too.
C6_FailureIsolated ==
    /\ pc = "aborted" => raisedAt \notin (TrySites \cup {"write_error", "read_L", "set_public"})
    /\ pc = "except" => (raisedAt \in TrySites /\ exc \in ErrMsgs)
    /\ cpc = "raised" => (raisedAt = "compress" /\ result = NoResult /\ pc \in {"compress", "none"})
    /\ (raisedAt = "compress" /\ pc \notin {"compress", "none"}) =>
        (pc = "except" \/ (pc = "finally" /\ Did(row, "failed")))
    /\ \A r \in Rows :
        /\ (pc \notin {"start", "aborted"} /\ Finished(r) /\ Url(r) # "") =>
            /\ Did(r, "reached")
            /\ (Did(r, "skipped") /\ log[r].l0 # Empty) \/ Did(r, "processing")
        /\ (Did(r, "processing") /\ Finished(r)) =>
            (Did(r, "failed") \/ (Did(r, "wrote_L") /\ Did(r, "wrote_M")))
        /\ (Did(r, "failed") /\ Finished(r)) =>
            /\ log[r].at \in TrySites
            /\ Did(r, "wrote_error") => IsErrorOf(cellM[r], log[r].msg)
            /\ ~Did(r, "wrote_error") => cellM[r] = log[r].m0

\* The first row's render+compose fails with the long message, the error is
\* written, and the next row is processed to a success.
C6_Witness ==
    /\ pc = "done"
    /\ Did(START_ROW, "wrote_error")
    /\ log[START_ROW].at = "compress"
    /\ log[START_ROW].msg = LongMsg
    /\ Len(cellM[START_ROW].chars) = Len(ERROR_PREFIX) + ERROR_CHARS
    /\ Did(START_ROW + 1, "wrote_M")
    /\ ~Did(START_ROW + 1, "failed")

\* C7 as stated: for a row whose output cell holds a reference when the row
\* is reached there is no download, compression or upload, and neither its
\* output cell nor its status cell is written.
C7_FilledRowUntouched ==
    \A r \in Rows :
        log[r].l0 # Empty =>
            /\ ~Did(r, "downloaded")
            /\ ~UploadedFor(r)
            /\ cellL[r] = log[r].l0
            /\ cellM[r] = log[r].m0

Success(r) ==
    \E i \in 1..Len(driveFiles) :
        LET f == driveFiles[i] IN
        /\ f.row = r
        /\ cellL[r] = ViewUrl(f.id)
        /\ cellM[r].kind = "status"
        /\ cellM[r].flag \in {"COMPRESSED", "LARGE_FILE"}
        /\ cellM[r].dpi = f.bytes.dpi
        /\ cellM[r].q = f.bytes.quality
        /\ cellM[r].size = f.bytes.len

Failure(r) ==
    /\ IsErrorOf(cellM[r], log[r].msg)
    /\ ~Did(r, "wrote_L")
    /\ cellL[r] = log[r].l0
    /\ ~UploadedFor(r)

\* C8 as stated: a row that run() processed ends as a success (the output
\* cell holds the uploaded file's reference, the status cell the tag with
\* dpi, quality and size) or as a failure (the status cell holds the ERROR
\* text, no output reference was written and no file was uploaded for the
\* row), never with a reference and an ERROR status. Rows whose ERROR text
\* the sheet refused are left aside here.
C8_SuccessOrFailure ==
    \A r \in Rows :
        (Did(r, "processing") /\ Finished(r) /\ ~Did(r, "error_write_failed")) =>
            /\ Success(r) \/ Failure(r)
            /\ ~(cellL[r].kind = "view_url" /\ cellL[r] # log[r].l0
                    /\ cellM[r].kind = "text")

----------------------------------------------------------------------------
\* Properties of iterative_compress_to_limit.

Pair(a) == <<a.dpi, a.quality>>
Fits(a) == a.size <= MAX_TARGET_BYTES
Last(seq) == seq[Len(seq)]
AsTuple(a) ==
    [pdf_bytes |-> [dpi |-> a.dpi, quality |-> a.quality, len |-> a.size],
     size |-> a.size, dpi |-> a.dpi, quality |-> a.quality]
NonDegenerate == START_DPI >= MIN_DPI /\ START_JPEG_QUALITY >= MIN_JPEG_QUALITY
IsDefault ==
    /\ START_DPI = DEFAULT_START_DPI /\ MIN_DPI = DEFAULT_MIN_DPI
    /\ DPI_STEP = DEFAULT_DPI_STEP
    /\ START_JPEG_QUALITY = DEFAULT_START_JPEG_QUALITY
    /\ MIN_JPEG_QUALITY = DEFAULT_MIN_JPEG_QUALITY
    /\ QUALITY_STEP = DEFAULT_QUALITY_STEP

\* The descent order as the specification describes it: from (d, q), lower
\* the quality while the result stays >= the minimum, then lower the dpi
\* while the result stays >= the minimum and reset the quality.
RECURSIVE DescentFrom(_, _)
DescentFrom(d, q) ==
    <<<<d, q>>>> \o
        (IF q - QUALITY_STEP >= MIN_JPEG_QUALITY THEN DescentFrom(d, q - QUALITY_STEP)
         ELSE IF d - DPI_STEP >= MIN_DPI THEN DescentFrom(d - DPI_STEP, START_JPEG_QUALITY)
         ELSE <<>>)
DescentPath == DescentFrom(START_DPI, START_JPEG_QUALITY)

\* C1: the attempts follow the descent order, no attempt follows one whose
\* size is within the budget, a best-effort (over-budget) return happens only
\* when the whole descent was over budget, and a return after a fitting
\* attempt returns that attempt's bytes, size, dpi and quality.
C1_FirstFitWins ==
    LET path == DescentPath IN
    /\ Len(attempts) <= Len(path)
    /\ \A i \in 1..Len(attempts) : Pair(attempts[i]) = path[i]
    /\ \A i \in 1..(Len(attempts) - 1) : ~Fits(attempts[i])
    /\ cpc = "returned" =>
        /\ attempts # <<>>
        /\ result = AsTuple(Last(attempts))
        /\ (Fits(Last(attempts)) => result.size <= MAX_TARGET_BYTES)
        /\ (~Fits(Last(attempts)) => Len(attempts) = Len(path))

C1_Witness ==
    /\ cpc = "returned"
    /\ Len(attempts) >= 3
    /\ result.size = MAX_TARGET_BYTES
    /\ Len(attempts) < Len(DescentPath)

\* The lowest value of START - i * STEP that is >= MIN, for START >= MIN.
FloorDpi == START_DPI - DPI_STEP * ((START_DPI - MIN_DPI) \div DPI_STEP)
FloorQuality ==
    START_JPEG_QUALITY
        - QUALITY_STEP * ((START_JPEG_QUALITY - MIN_JPEG_QUALITY) \div QUALITY_STEP)

BestEffort == cpc = "returned" /\ result.size > MAX_TARGET_BYTES

\* C2 as stated: with start >= min, a best-effort result is the one
\* computed at exactly (MIN_DPI, MIN_JPEG_QUALITY).
C2_BestEffortAtMinimums ==
    (NonDegenerate /\ BestEffort) =>
        result.dpi = MIN_DPI /\ result.quality = MIN_JPEG_QUALITY

\* C2 amended: with start >= min, a best-effort result is the one computed
\* at the lowest dpi START_DPI - i * DPI_STEP >= MIN_DPI and the lowest
\* quality START_JPEG_QUALITY - j * QUALITY_STEP >= MIN_JPEG_QUALITY; that
\* is (80, 30) with the defaults.
C2_BestEffortAtFloor ==
    (NonDegenerate /\ BestEffort) =>
        /\ result.dpi = FloorDpi
        /\ result.quality = FloorQuality
        /\ result = AsTuple(Last(attempts))
        /\ (IsDefault => result.dpi = 80 /\ result.quality = 30)

C2_Witness ==
    /\ IsDefault
    /\ BestEffort
    /\ result.dpi > MIN_DPI

\* ceil(a / b) for a >= 0, b >= 1
CeilDiv(a, b) == (a + b - 1) \div b
AttemptBound ==
    (CeilDiv(START_DPI - MIN_DPI, DPI_STEP) + 1)
        * (CeilDiv(START_JPEG_QUALITY - MIN_JPEG_QUALITY, QUALITY_STEP) + 1)
Terminated == cpc \in {"returned", "raised"}

\* C3: with start >= min (steps are >= 1), the call ends, it makes at most
\* ceil((START_DPI - MIN_DPI)/DPI_STEP + 1) *
\* ceil((START_JPEG_QUALITY - MIN_JPEG_QUALITY)/QUALITY_STEP + 1) attempts,
\* and with both starts at their minimums it makes one attempt and returns
\* it whatever its size.
C3_TerminatesWithinBound ==
    /\ [](NonDegenerate =>
            /\ Len(attempts) <= AttemptBound
            /\ (START_DPI = MIN_DPI /\ START_JPEG_QUALITY = MIN_JPEG_QUALITY) =>
                /\ Len(attempts) <= 1
                /\ cpc = "check" => ENABLED (ReturnWithinLimit \/ ReturnBestEffort)
                /\ cpc = "returned" => result = AsTuple(attempts[1]))
    /\ <>Terminated

C3_Witness ==
    /\ START_DPI = MIN_DPI
    /\ START_JPEG_QUALITY = MIN_JPEG_QUALITY
    /\ cpc = "returned"
    /\ result.size > MAX_TARGET_BYTES

\* C4: from one attempt to the next the dpi never increases; an attempt at
\* a lower dpi than the one before uses START_JPEG_QUALITY; two consecutive
\* attempts at the same dpi differ in quality by exactly QUALITY_STEP.
C4_DescentShape ==
    \A i \in 1..(Len(attempts) - 1) :
        LET a == attempts[i]
            b == attempts[i + 1]
        IN  /\ b.dpi <= a.dpi
            /\ b.dpi < a.dpi => b.quality = START_JPEG_QUALITY
            /\ b.dpi = a.dpi => b.quality = a.quality - QUALITY_STEP

C4_Witness ==
    /\ \E i \in 1..(Len(attempts) - 1) :
        /\ attempts[i + 1].dpi < attempts[i].dpi
        /\ attempts[i].quality < START_JPEG_QUALITY
    /\ \E i \in 1..(Len(attempts) - 1) : attempts[i + 1].dpi = attempts[i].dpi

\* The qualities tried at one dpi, in order.
QualityLevels ==
    IF START_JPEG_QUALITY < MIN_JPEG_QUALITY THEN <<>>
    ELSE [k \in 1..((START_JPEG_QUALITY - MIN_JPEG_QUALITY) \div QUALITY_STEP + 1) |->
            START_JPEG_QUALITY - (k - 1) * QUALITY_STEP]

\* C5: the dpi is lowered only directly after an over-budget attempt whose
\* quality q has q - QUALITY_STEP < MIN_JPEG_QUALITY, and the attempts just
\* before it are, at that dpi, the qualities START_JPEG_QUALITY,
\* START_JPEG_QUALITY - QUALITY_STEP, ... >= MIN_JPEG_QUALITY in that order.
\* With budget 1,000,000 and the defaults, the first 12 attempts of a run
\* that reaches a 13th are (150, 85), (150, 80), ..., (150, 30) and the 13th
\* is (140, 85).
C5_QualityExhaustedFirst ==
    /\ \A i \in 1..(Len(attempts) - 1) :
        attempts[i + 1].dpi < attempts[i].dpi =>
            /\ ~Fits(attempts[i])
            /\ attempts[i].quality - QUALITY_STEP < MIN_JPEG_QUALITY
            /\ LET n == Len(QualityLevels) IN
                /\ i >= n
                /\ \A k \in 1..n :
                    Pair(attempts[i - n + k]) = <<attempts[i].dpi, QualityLevels[k]>>
    /\ (IsDefault /\ MAX_TARGET_BYTES = ScenarioBudget /\ Len(attempts) >= 13) =>
        /\ \A k \in 1..12 : Pair(attempts[k]) = <<150, 85 - 5 * (k - 1)>>
        /\ \A k \in 1..12 : ~Fits(attempts[k])
        /\ Pair(attempts[13]) = <<140, 85>>

C5_Witness ==
    /\ IsDefault
    /\ MAX_TARGET_BYTES = ScenarioBudget
    /\ Len(attempts) = 13

Degenerate == START_DPI < MIN_DPI \/ START_JPEG_QUALITY < MIN_JPEG_QUALITY

\* C9 as stated: a call with START_DPI < MIN_DPI or START_JPEG_QUALITY <
\* MIN_JPEG_QUALITY makes no render+compose attempt and returns no tuple.
C9_DegenerateRangeRejected ==
    Degenerate => (attempts = <<>> /\ cpc # "check" /\ cpc # "returned")

\* v = start - i * step for some i >= 0
OnGrid(v, start, step) == \E i \in 0..(start - v) : v = start - i * step
InRange(d, q) ==
    /\ MIN_DPI <= d /\ d <= START_DPI
    /\ MIN_JPEG_QUALITY <= q /\ q <= START_JPEG_QUALITY
    /\ OnGrid(d, START_DPI, DPI_STEP)
    /\ OnGrid(q, START_JPEG_QUALITY, QUALITY_STEP)

\* C10: with start >= min (steps are >= 1), every attempt and the returned
\* pair lie in [MIN_DPI, START_DPI] x [MIN_JPEG_QUALITY, START_JPEG_QUALITY]
\* on the grid START - i * STEP, and no pair is attempted twice.
C10_AttemptsInRange ==
    NonDegenerate =>
        /\ \A i \in 1..Len(attempts) : InRange(attempts[i].dpi, attempts[i].quality)
        /\ InRange(dpi, quality)
        /\ cpc = "returned" => InRange(result.dpi, result.quality)
        /\ \A i, j \in 1..Len(attempts) : Pair(attempts[i]) = Pair(attempts[j]) => i = j

C10_Witness ==
    /\ NonDegenerate
    /\ cpc = "returned"
    /\ result.dpi = MIN_DPI
    /\ result.quality = MIN_JPEG_QUALITY
    /\ Len(attempts) >= 4

====
